---- MODULE Spec2Model ----
(***************************************************************************)
(* A model of the charset crate (src/src/lib.rs): the UTF-7 decoder        *)
(* decode_utf7 with its helpers, and the label resolution of Charset.      *)
(*                                                                         *)
(* Byte buffers are sequences of integers 0..255.  A Rust String / &str is *)
(* modelled by its UTF-8 bytes, so that from_utf8_unchecked is what it is  *)
(* in the program: the same bytes, taken as text without validation.       *)
(***************************************************************************)
EXTENDS Integers, Sequences, FiniteSets, TLC

VARIABLES
    bytes,       \* decode_utf7: the input buffer
    pc,          \* decode_utf7: "start", "loop", "done" or "panic"; "idle" when no decode runs
    tail,        \* decode_utf7: the slice still to be scanned
    out,         \* decode_utf7: the owned String `out`, as UTF-8 bytes
    had_errors,  \* decode_utf7: the aggregated error flag
    borrowed,    \* the result is Cow::Borrowed(input)
    raw,         \* history: the input bytes taken as text by from_utf8_unchecked
    allow_bits,  \* the base64 library of the build accepts non-zero trailing bits
    b64_calls,   \* history: the calls of utf7_base64_decode, with their chunk steps
    label,       \* for_label / for_label_no_replacement: the label argument
    lpc,         \* label resolution: the resolvers that have returned
    with_repl,   \* result of Charset::for_label(label)
    no_repl,     \* result of Charset::for_label_no_replacement(label)
    handle,      \* the caller's choice: the constant "UTF_7" or an encoding_rs handle
    self_cs,     \* the Charset obtained for handle (None before it is obtained)
    input,       \* the buffer given to decode / decode_with(out)_bom_...
    entry,       \* the decoding method called on self_cs ("none" before the call)
    used_cs,     \* Charset::decode: the charset actually used
    ext          \* the call made to a decoder of encoding_rs (None if none)

vars == <<bytes, pc, tail, out, had_errors, borrowed, raw, allow_bits, b64_calls,
          label, lpc, with_repl, no_repl,
          handle, self_cs, input, entry, used_cs, ext>>
decodeVars == <<bytes, pc, tail, out, had_errors, borrowed, raw, allow_bits, b64_calls>>
labelVars == <<label, lpc, with_repl, no_repl>>
apiVars == <<handle, self_cs, input, entry, used_cs, ext>>

----------------------------------------------------------------------------
(* Bounds of the model. *)

\* longest input buffer drawn exhaustively from InputBytes
MaxLen == 5
\* longest label drawn exhaustively from LabelBytes
MaxLabelLen == 5
\* longest buffer of the facade drawn exhaustively from ApiBytes
MaxApiLen == 3
\* longest buffer of the termination runs drawn exhaustively from TermBytes
MaxTermLen == 4

----------------------------------------------------------------------------
(* Bytes the program names. *)

Plus == 43
Minus == 45
Slash == 47
HighBit == 128
ChunkLen == 80
BufLen == 60
ReplacementChar == 65533

\* the slice s[from..] of Rust, from counted from 0
SliceFrom(s, from) == SubSeq(s, from + 1, Len(s))
\* the slice s[..to] of Rust
SliceTo(s, to) == SubSeq(s, 1, to)

----------------------------------------------------------------------------
(* String::push_str of one char: the UTF-8 encoding of a scalar value. *)

Utf8Encode(cp) ==
    IF cp < 128 THEN <<cp>>
    ELSE IF cp < 2048 THEN <<192 + (cp \div 64), 128 + (cp % 64)>>
    ELSE IF cp < 65536 THEN
        <<224 + (cp \div 4096), 128 + ((cp \div 64) % 64), 128 + (cp % 64)>>
    ELSE <<240 + (cp \div 262144), 128 + ((cp \div 4096) % 64),
           128 + ((cp \div 64) % 64), 128 + (cp % 64)>>

Replacement == Utf8Encode(ReplacementChar)

----------------------------------------------------------------------------
(* utf7_ascii_up_to and utf7_base64_up_to: the index of the first byte that *)
(* ends the run, or the length of the slice.                                *)

\* a scan that lets the byte 0x80 through
StopsAsciiAbove(byte) == byte = Plus \/ byte > HighBit

StopsAscii(byte) == byte = Plus \/ byte >= HighBit

IsBase64(byte) ==
    \/ byte \in 97..122
    \/ byte \in 65..90
    \/ byte \in 48..57
    \/ byte = Plus
    \/ byte = Slash

\* lines 346-354: the index of the first byte that stops the scan, or the length
utf7_ascii_up_to(s) ==
    IF \E i \in 1..Len(s) : StopsAscii(s[i])
    THEN (CHOOSE i \in 1..Len(s) :
              StopsAscii(s[i]) /\ \A j \in 1..(i - 1) : ~StopsAscii(s[j])) - 1
    ELSE Len(s)

\* lines 356-367: the index of the first byte outside the Base64 alphabet
utf7_base64_up_to(s) ==
    IF \E i \in 1..Len(s) : ~IsBase64(s[i])
    THEN (CHOOSE i \in 1..Len(s) :
              ~IsBase64(s[i]) /\ \A j \in 1..(i - 1) : IsBase64(s[j])) - 1
    ELSE Len(s)

----------------------------------------------------------------------------
(* base64::decode_config_slice(input, STANDARD_NO_PAD, &mut buf[..]), the   *)
(* call of utf7_base64_decode.  It answers Err for a byte outside the       *)
(* standard alphabet, for a length that leaves a lone 6-bit symbol, for     *)
(* misplaced padding and (unless the build of the library allows trailing   *)
(* bits) for a last symbol with non-zero unused bits; the caller unwraps    *)
(* the result.  It panics when the decoded bytes do not fit the slice.      *)

B64Value(byte) ==
    IF byte \in 65..90 THEN byte - 65
    ELSE IF byte \in 97..122 THEN byte - 97 + 26
    ELSE IF byte \in 48..57 THEN byte - 48 + 52
    ELSE IF byte = Plus THEN 62
    ELSE 63

\* the padding byte '=' of the library
IsPad(byte) == byte = 61

\* the number of '=' that end s
RECURSIVE PadCount(_)
PadCount(s) ==
    IF Len(s) > 0 /\ IsPad(s[Len(s)]) THEN 1 + PadCount(SliceTo(s, Len(s) - 1))
    ELSE 0

\* the bytes of the complete 4-symbol groups of d, from symbol index i on
RECURSIVE B64Groups(_, _)
B64Groups(d, i) ==
    IF i + 4 > Len(d) THEN <<>>
    ELSE LET v == B64Value(d[i + 1]) * 262144 + B64Value(d[i + 2]) * 4096
                  + B64Value(d[i + 3]) * 64 + B64Value(d[i + 4])
         IN <<v \div 65536, (v \div 256) % 256, v % 256>> \o B64Groups(d, i + 4)

\* the last, partial group of d (2 or 3 symbols): its bytes and its unused bits
B64Rest(d) ==
    LET n == Len(d)
        r == n % 4
    IN IF r = 2 THEN
           LET v == B64Value(d[n - 1]) * 64 + B64Value(d[n])
           IN [data |-> <<v \div 16>>, bits |-> v % 16]
       ELSE IF r = 3 THEN
           LET v == B64Value(d[n - 2]) * 4096 + B64Value(d[n - 1]) * 64 + B64Value(d[n])
           IN [data |-> <<v \div 1024, (v \div 4) % 256>>, bits |-> v % 4]
       ELSE [data |-> <<>>, bits |-> 0]

Base64Decode(s, lenient) ==
    LET p == PadCount(s)
        d == SliceTo(s, Len(s) - p)
        r == Len(d) % 4
        rest == B64Rest(d)
        data == B64Groups(d, 0) \o rest.data
    IN IF \E i \in 1..Len(d) : ~IsBase64(d[i]) THEN [ok |-> FALSE, fits |-> TRUE, data |-> <<>>]
       ELSE IF r = 1 THEN [ok |-> FALSE, fits |-> TRUE, data |-> <<>>]
       ELSE IF p > 0 /\ (r = 0 \/ p > 4 - r) THEN [ok |-> FALSE, fits |-> TRUE, data |-> <<>>]
       ELSE IF rest.bits # 0 /\ ~lenient THEN [ok |-> FALSE, fits |-> TRUE, data |-> <<>>]
       ELSE [ok |-> TRUE, fits |-> Len(data) <= BufLen, data |-> data]

----------------------------------------------------------------------------
(* UTF_16BE.new_decoder_without_bom_handling() and decode_to_string: the    *)
(* decoder keeps a pending lead byte and a pending high surrogate between   *)
(* calls; an unpaired surrogate, and at the end of the stream a pending     *)
(* byte or surrogate, becomes U+FFFD and sets the error flag.               *)

NoDecoderState == [lead |-> -1, high |-> -1]

IsHighSurrogate(unit) == unit \in 55296..56319
IsLowSurrogate(unit) == unit \in 56320..57343

\* the concatenation of the sequences ss[lo], ..., ss[hi]
RECURSIVE Flatten(_, _, _)
Flatten(ss, lo, hi) ==
    IF lo > hi THEN <<>>
    ELSE IF lo = hi THEN ss[lo]
    ELSE Flatten(ss, lo, (lo + hi) \div 2) \o Flatten(ss, (lo + hi) \div 2 + 1, hi)

\* One decode_to_string call on data, from the decoder state st, appending
\* to acc.  The text of a code unit depends on the unit and on whether the
\* unit before it (or the state the call started in) left a high surrogate
\* pending.
Utf16Be(data, st, acc, err, last) ==
    LET all == (IF st.lead # -1 THEN <<st.lead>> ELSE <<>>) \o data
        m == Len(all) \div 2
        unit(k) == all[2 * k - 1] * 256 + all[2 * k]
        before(k) == IF k = 1 THEN st.high
                     ELSE IF IsHighSurrogate(unit(k - 1)) THEN unit(k - 1) ELSE -1
        unpaired(k) ==
            IF IsLowSurrogate(unit(k)) THEN before(k) = -1 ELSE before(k) # -1
        seg(k) ==
            IF IsHighSurrogate(unit(k)) THEN
                IF before(k) # -1 THEN Replacement ELSE <<>>
            ELSE IF IsLowSurrogate(unit(k)) THEN
                IF before(k) # -1
                THEN Utf8Encode(65536 + (before(k) - 55296) * 1024 + (unit(k) - 56320))
                ELSE Replacement
            ELSE
                IF before(k) # -1
                THEN Replacement \o Utf8Encode(unit(k))
                ELSE Utf8Encode(unit(k))
        end == [lead |-> IF Len(all) % 2 = 1 THEN all[Len(all)] ELSE -1,
                high |-> IF m = 0 THEN st.high
                         ELSE IF IsHighSurrogate(unit(m)) THEN unit(m) ELSE -1]
        pending == last /\ (end.lead # -1 \/ end.high # -1)
    IN [text |-> acc \o Flatten([k \in 1..m |-> seg(k)], 1, m)
                     \o (IF pending THEN Replacement ELSE <<>>),
        err |-> err \/ pending \/ \E k \in 1..m : unpaired(k),
        st |-> IF pending THEN NoDecoderState ELSE end]

----------------------------------------------------------------------------
(* utf7_base64_decode(bytes, string): the chunk loop.  The result is the    *)
(* text appended to string, the error flag returned, and whether the call   *)
(* panicked (the unwrap of an Err, or a 60-byte buffer too small).          *)

(* The field chunks lists the iterations of the loop: the length of the     *)
(* slice given to the Base64 decoder, the last flag, and how the iteration  *)
(* ended: "return", "next" (tail = &tail[80..]), or a panic ("unwrap" of an *)
(* Err, "buffer" when the decoded bytes exceed buf).                        *)
RECURSIVE Base64DecodeLoop(_, _, _, _, _)
Base64DecodeLoop(t, st, acc, err, lenient) ==
    LET last == Len(t) <= ChunkLen
        dec == Base64Decode(t, lenient)
        step(how) == [given |-> Len(t), last |-> last, ended |-> how]
    IN IF ~dec.ok THEN
           [panic |-> TRUE, text |-> acc, err |-> err, chunks |-> <<step("unwrap")>>]
       ELSE IF ~dec.fits THEN
           [panic |-> TRUE, text |-> acc, err |-> err, chunks |-> <<step("buffer")>>]
       ELSE LET r == Utf16Be(dec.data, st, acc, err, last)
            IN IF last THEN
                   [panic |-> FALSE, text |-> r.text, err |-> r.err,
                    chunks |-> <<step("return")>>]
               ELSE LET more == Base64DecodeLoop(SliceFrom(t, ChunkLen), r.st, r.text,
                                                 r.err, lenient)
                    IN [more EXCEPT !.chunks = <<step("next")>> \o @]

utf7_base64_decode(t, lenient) ==
    Base64DecodeLoop(t, NoDecoderState, <<>>, FALSE, lenient)

----------------------------------------------------------------------------
(* decode_utf7 *)

\* the bytes the inputs are drawn from: '!', '+', '-', '2', '=', 'A', 0x80
InputBytes == {33, Plus, Minus, 50, 61, 65, HighBit}

\* inputs of the documentation and of the UTF-7 examples:
\* "+AOk-", "+AOk", "A<80>B", "+2AA" (a lone high surrogate), "+2D3eAA" (a pair)
ExampleInputs ==
    { <<43, 65, 79, 107, 45>>, <<43, 65, 79, 107>>, <<65, 128, 66>>,
      <<43, 50, 65, 65>>, <<43, 50, 68, 51, 101, 65, 65>> }

\* '+' and a shifted run of n letters 'A'
LongRun(n) == <<Plus>> \o [i \in 1..n |-> 65]

\* shifted runs of more than one chunk
MultiChunkInputs == {LongRun(n) : n \in {ChunkLen + 1, ChunkLen + 4, 2 * ChunkLen}}

\* shifted runs around the chunk length: one chunk, and more than one
LongRunInputs == {LongRun(ChunkLen - 1), LongRun(ChunkLen)} \cup MultiChunkInputs

Inputs == UNION {[1..n -> InputBytes] : n \in 0..MaxLen} \cup ExampleInputs \cup LongRunInputs

\* an ASCII scan that also steps over the byte that stopped it
AsciiRunPastStop(t, o, he) ==
    LET up_to == utf7_ascii_up_to(t)
        run == SliceTo(t, up_to)
    IN /\ out' = o \o run
       /\ raw' = raw \o run
       /\ had_errors' = he
       /\ IF up_to = Len(t)
          THEN pc' = "done" /\ tail' = t
          ELSE pc' = "loop" /\ tail' = SliceFrom(t, up_to + 1)

\* lines 448-453: copy the ASCII run that starts t, then return or go round
AsciiRun(t, o, he) ==
    LET up_to == utf7_ascii_up_to(t)
        run == SliceTo(t, up_to)
    IN /\ out' = o \o run
       /\ raw' = raw \o run
       /\ had_errors' = he
       /\ IF up_to = Len(t)
          THEN pc' = "done" /\ tail' = t
          ELSE pc' = "loop" /\ tail' = SliceFrom(t, up_to)

\* a decode_utf7 without the fast path: the scanned input is always copied
decode_utf7_always_owned ==
    /\ pc = "start"
    /\ LET up_to == utf7_ascii_up_to(bytes)
       IN /\ pc' = IF up_to = Len(bytes) THEN "done" ELSE "loop"
          /\ out' = SliceTo(bytes, up_to)
          /\ raw' = SliceTo(bytes, up_to)
          /\ tail' = SliceFrom(bytes, up_to)
          /\ UNCHANGED <<borrowed, had_errors>>
    /\ UNCHANGED <<bytes, allow_bits, b64_calls, labelVars, apiVars>>

\* lines 407-417: the first scan, and the fast path
decode_utf7 ==
    /\ pc = "start"
    /\ LET up_to == utf7_ascii_up_to(bytes)
       IN IF up_to = Len(bytes)
          THEN /\ pc' = "done"
               /\ borrowed' = TRUE
               /\ raw' = bytes
               /\ UNCHANGED <<tail, out, had_errors>>
          ELSE /\ pc' = "loop"
               /\ out' = SliceTo(bytes, up_to)
               /\ raw' = SliceTo(bytes, up_to)
               /\ tail' = SliceFrom(bytes, up_to)
               /\ UNCHANGED <<borrowed, had_errors>>
    /\ UNCHANGED <<bytes, allow_bits, b64_calls, labelVars, apiVars>>

\* an iteration that assigns the flag of the run instead of ORing it in
LoopPlusAssignsFlag ==
    /\ pc = "loop"
    /\ Len(tail) > 0
    /\ tail[1] = Plus
    /\ LET t == SliceFrom(tail, 1)
           up_to == utf7_base64_up_to(t)
           dec == utf7_base64_decode(t, allow_bits)
           he == dec.err
           o == out \o dec.text
       IN /\ b64_calls' = Append(b64_calls, [arg |-> t, chunks |-> dec.chunks])
          /\ IF dec.panic
             THEN pc' = "panic" /\ UNCHANGED <<tail, out, had_errors, raw>>
             ELSE IF up_to = Len(t)
             THEN /\ pc' = "done"
                  /\ out' = o
                  /\ had_errors' = he
                  /\ tail' = t
                  /\ UNCHANGED raw
             ELSE IF up_to = 0
             THEN IF t[up_to + 1] = Minus
                  THEN AsciiRun(SliceFrom(t, up_to + 1), o \o <<Plus>>, he)
                  ELSE AsciiRun(t, o \o Replacement, TRUE)
             ELSE AsciiRun(SliceFrom(t, up_to), o, he)
    /\ UNCHANGED <<bytes, borrowed, allow_bits, labelVars, apiVars>>

\* lines 418-443 and 448-453: an iteration whose first byte is '+'
LoopPlus ==
    /\ pc = "loop"
    /\ Len(tail) > 0
    /\ tail[1] = Plus
    /\ LET t == SliceFrom(tail, 1)
           up_to == utf7_base64_up_to(t)
           dec == utf7_base64_decode(t, allow_bits)
           he == had_errors \/ dec.err
           o == out \o dec.text
       IN /\ b64_calls' = Append(b64_calls, [arg |-> t, chunks |-> dec.chunks])
          /\ IF dec.panic
             THEN pc' = "panic" /\ UNCHANGED <<tail, out, had_errors, raw>>
             ELSE IF up_to = Len(t)
             THEN /\ pc' = "done"
                  /\ out' = o
                  /\ had_errors' = he
                  /\ tail' = t
                  /\ UNCHANGED raw
             ELSE IF up_to = 0
             THEN IF t[up_to + 1] = Minus
                  THEN AsciiRun(SliceFrom(t, up_to + 1), o \o <<Plus>>, he)
                  ELSE AsciiRun(t, o \o Replacement, TRUE)
             ELSE AsciiRun(SliceFrom(t, up_to), o, he)
    /\ UNCHANGED <<bytes, borrowed, allow_bits, labelVars, apiVars>>

\* an iteration that replaces the high byte and does not step over it
LoopMalformedNoAdvance ==
    /\ pc = "loop"
    /\ ~(Len(tail) > 0 /\ tail[1] = Plus)
    /\ IF Len(tail) = 0
       THEN pc' = "panic" /\ UNCHANGED <<tail, out, had_errors, raw>>
       ELSE AsciiRun(tail, out \o Replacement, TRUE)
    /\ UNCHANGED <<bytes, borrowed, allow_bits, b64_calls, labelVars, apiVars>>

\* an iteration that replaces the high byte and forgets the error flag
LoopMalformedNoFlag ==
    /\ pc = "loop"
    /\ ~(Len(tail) > 0 /\ tail[1] = Plus)
    /\ IF Len(tail) = 0
       THEN pc' = "panic" /\ UNCHANGED <<tail, out, had_errors, raw>>
       ELSE AsciiRun(SliceFrom(tail, 1), out \o Replacement, had_errors)
    /\ UNCHANGED <<bytes, borrowed, allow_bits, b64_calls, labelVars, apiVars>>

\* lines 418-421 and 444-453: an iteration whose first byte is not '+'
LoopMalformed ==
    /\ pc = "loop"
    /\ ~(Len(tail) > 0 /\ tail[1] = Plus)
    /\ IF Len(tail) = 0
       THEN pc' = "panic" /\ UNCHANGED <<tail, out, had_errors, raw>>
       ELSE AsciiRun(SliceFrom(tail, 1), out \o Replacement, TRUE)
    /\ UNCHANGED <<bytes, borrowed, allow_bits, b64_calls, labelVars, apiVars>>

\* a call of decode_utf7 on a buffer of the set buffers
DecodeInitOver(buffers) ==
    /\ bytes \in buffers
    /\ allow_bits \in BOOLEAN
    /\ pc = "start"
    /\ tail = <<>>
    /\ out = <<>>
    /\ had_errors = FALSE
    /\ borrowed = FALSE
    /\ raw = <<>>
    /\ b64_calls = <<>>
    /\ label = <<>>
    /\ lpc = {}
    /\ with_repl = <<>>
    /\ no_repl = <<>>
    /\ handle = "none"
    /\ self_cs = <<>>
    /\ input = <<>>
    /\ entry = "none"
    /\ used_cs = <<>>
    /\ ext = <<>>

DecodeInit == DecodeInitOver(Inputs)

\* the text of the returned Cow
Text == IF borrowed THEN bytes ELSE out

----------------------------------------------------------------------------
(* Label resolution *)

\* the five whitespace bytes of the label scanners: tab, LF, FF, CR, space
IsLabelSpace(byte) == byte \in {9, 10, 12, 13, 32}

\* byte | 0x20
Or20(byte) == IF (byte \div 32) % 2 = 1 THEN byte ELSE byte + 32

\* lines 328-343: only whitespace may follow the token
RECURSIVE LabelAfter(_, _)
LabelAfter(l, i) ==
    IF i > Len(l) THEN TRUE
    ELSE IF IsLabelSpace(l[i]) THEN LabelAfter(l, i + 1)
    ELSE FALSE

\* a comparison that folds the case of all four bytes
LabelInsideFoldAll(l, i) ==
    IF Len(l) - i + 1 < 4 THEN FALSE
    ELSE IF <<Or20(l[i]), Or20(l[i + 1]), Or20(l[i + 2]), Or20(l[i + 3])>>
                = <<116, 102, 45, 55>>
    THEN LabelAfter(l, i + 4)
    ELSE FALSE

\* lines 316-327: the four bytes after the 'u'; i is the index of the first
LabelInside(l, i) ==
    IF Len(l) - i + 1 < 4 THEN FALSE
    ELSE IF <<Or20(l[i]), Or20(l[i + 1]), l[i + 2], l[i + 3]>> = <<116, 102, 45, 55>>
    THEN LabelAfter(l, i + 4)
    ELSE FALSE

\* lines 297-315: skip whitespace up to the 'u'
RECURSIVE LabelBefore(_, _)
LabelBefore(l, i) ==
    IF i > Len(l) THEN FALSE
    ELSE IF IsLabelSpace(l[i]) THEN LabelBefore(l, i + 1)
    ELSE IF l[i] \in {117, 85} THEN LabelInside(l, i + 1)
    ELSE FALSE

is_utf7_label(l) == LabelBefore(l, 1)

(* encoding_rs::Encoding::for_label: trim the whitespace, lowercase ASCII,  *)
(* look the label up.  The table holds the labels of the crate's tests and  *)
(* the names of the encodings they resolve to.                              *)

RECURSIVE TrimLeft(_)
TrimLeft(l) ==
    IF Len(l) > 0 /\ IsLabelSpace(l[1]) THEN TrimLeft(SliceFrom(l, 1)) ELSE l

RECURSIVE TrimRight(_)
TrimRight(l) ==
    IF Len(l) > 0 /\ IsLabelSpace(l[Len(l)]) THEN TrimRight(SliceTo(l, Len(l) - 1)) ELSE l

AsciiLower(l) == [i \in 1..Len(l) |-> IF l[i] \in 65..90 THEN l[i] + 32 ELSE l[i]]

EncodingTable ==
    { <<<<117, 116, 102, 45, 56>>, "UTF_8">>,
      <<<<105, 115, 111, 45, 56, 56, 53, 57, 45, 49>>, "WINDOWS_1252">>,
      <<<<103, 98, 50, 51, 49, 50>>, "GBK">>,
      <<<<103, 98, 107>>, "GBK">>,
      <<<<103, 98, 49, 56, 48, 51, 48>>, "GB18030">>,
      <<<<105, 115, 111, 45, 50, 48, 50, 50, 45, 107, 114>>, "REPLACEMENT">> }

\* Option<T>: None is the empty sequence, Some(x) the sequence <<x>>
None == <<>>
Some(x) == <<x>>

Encoding_for_label(l) ==
    LET key == AsciiLower(TrimRight(TrimLeft(l)))
        hits == {e \in EncodingTable : e[1] = key}
    IN IF hits = {} THEN None ELSE Some((CHOOSE e \in hits : TRUE)[2])

Encoding_for_label_no_replacement(l) ==
    IF Encoding_for_label(l) = Some("REPLACEMENT") THEN None ELSE Encoding_for_label(l)

\* the Charset values: VariantCharset::Utf7 and VariantCharset::Encoding(enc)
UTF_7 == [variant |-> "Utf7", encoding |-> "-"]

\* a for_encoding that wraps every handle as it is given
for_encoding_keeps_gbk(encoding) ==
    [variant |-> "Encoding", encoding |-> encoding]

\* lines 158-164
for_encoding(encoding) ==
    LET enc == IF encoding = "GBK" THEN "GB18030" ELSE encoding
    IN [variant |-> "Encoding", encoding |-> enc]

\* lines 117-126
for_label(l) ==
    IF Encoding_for_label(l) # None THEN Some(for_encoding(Encoding_for_label(l)[1]))
    ELSE IF is_utf7_label(l) THEN Some(UTF_7)
    ELSE None

\* a for_label_no_replacement that asks the table of for_label
for_label_no_replacement_same_table(l) ==
    IF Encoding_for_label(l) # None
    THEN Some(for_encoding(Encoding_for_label(l)[1]))
    ELSE IF is_utf7_label(l) THEN Some(UTF_7)
    ELSE None

\* lines 143-152
for_label_no_replacement(l) ==
    IF Encoding_for_label_no_replacement(l) # None
    THEN Some(for_encoding(Encoding_for_label_no_replacement(l)[1]))
    ELSE IF is_utf7_label(l) THEN Some(UTF_7)
    ELSE None

\* the bytes the labels are drawn from: space, '-', '7', 'T', 'f', 'u'
LabelBytes == {32, 45, 55, 84, 102, 117}

\* the labels of the crate's tests, and variants of them
ExampleLabels ==
    { <<32, 32, 117, 84, 102, 45, 55, 9, 32>>,
      <<32, 32, 117, 84, 102, 45, 56, 9, 32>>,
      <<32, 32, 105, 83, 111, 45, 56, 56, 53, 57, 45, 49, 9, 32>>,
      <<32, 32, 103, 98, 50, 51, 49, 50, 9, 32>>,
      <<32, 32, 71, 98, 50, 51, 49, 50, 9, 32>>,
      <<32, 32, 73, 83, 79, 45, 50, 48, 50, 50, 45, 75, 82, 9, 32>>,
      <<117>>,
      <<117, 116>>,
      <<117, 116, 102>>,
      <<117, 116, 102, 45>>,
      <<117, 32, 116, 102, 45, 55>>,
      <<117, 116, 102, 45, 55, 120>>,
      <<120, 117, 116, 102, 45, 55>>,
      <<85, 84, 70, 45, 55>>,
      <<85, 116, 102, 45, 55, 10>>,
      <<12, 117, 116, 70, 45, 55, 13>>,
      <<117, 116, 102, 13, 55>>,
      <<117, 116, 102, 45, 23>>,
      <<117, 116, 102, 45, 56>>,
      <<103, 98, 107>>,
      <<71, 66, 75>>,
      <<103, 98, 49, 56, 48, 51, 48>>,
      <<105, 115, 111, 45, 50, 48, 50, 50, 45, 107, 114>>,
      <<32, 9>> }

Labels == UNION {[1..n -> LabelBytes] : n \in 0..MaxLabelLen} \cup ExampleLabels

CallForLabel ==
    /\ pc = "idle"
    /\ "for_label" \notin lpc
    /\ with_repl' = for_label(label)
    /\ lpc' = lpc \cup {"for_label"}
    /\ UNCHANGED <<decodeVars, apiVars, label, no_repl>>

CallForLabelNoReplacement ==
    /\ pc = "idle"
    /\ "for_label_no_replacement" \notin lpc
    /\ no_repl' = for_label_no_replacement(label)
    /\ lpc' = lpc \cup {"for_label_no_replacement"}
    /\ UNCHANGED <<decodeVars, apiVars, label, with_repl>>

LabelInit ==
    /\ label \in Labels
    /\ lpc = {}
    /\ with_repl = None
    /\ no_repl = None
    /\ bytes = <<>>
    /\ allow_bits = FALSE
    /\ pc = "idle"
    /\ tail = <<>>
    /\ out = <<>>
    /\ had_errors = FALSE
    /\ borrowed = FALSE
    /\ raw = <<>>
    /\ b64_calls = <<>>
    /\ handle = "none"
    /\ self_cs = <<>>
    /\ input = <<>>
    /\ entry = "none"
    /\ used_cs = <<>>
    /\ ext = <<>>

----------------------------------------------------------------------------
(* The Charset facade: for_bom, name and the three decoding methods.  A     *)
(* caller obtains a Charset (the constant UTF_7, or for_encoding of a       *)
(* handle of encoding_rs) and calls one decoding method on a buffer.  A     *)
(* decoder of encoding_rs is modelled by the call made to it.               *)

Encodings ==
    {"UTF_8", "UTF_16LE", "UTF_16BE", "GBK", "GB18030", "WINDOWS_1252", "REPLACEMENT"}

Handles == Encodings \cup {"UTF_7"}

StartsWith(s, prefix) == Len(s) >= Len(prefix) /\ SliceTo(s, Len(prefix)) = prefix

\* encoding_rs::Encoding::for_bom
Encoding_for_bom(buffer) ==
    IF StartsWith(buffer, <<239, 187, 191>>) THEN Some(<<"UTF_8", 3>>)
    ELSE IF StartsWith(buffer, <<255, 254>>) THEN Some(<<"UTF_16LE", 2>>)
    ELSE IF StartsWith(buffer, <<254, 255>>) THEN Some(<<"UTF_16BE", 2>>)
    ELSE None

\* lines 177-184
for_bom(buffer) ==
    IF Encoding_for_bom(buffer) # None
    THEN Some(<<for_encoding(Encoding_for_bom(buffer)[1][1]), Encoding_for_bom(buffer)[1][2]>>)
    ELSE None

\* encoding_rs::Encoding::name
Encoding_name(encoding) ==
    CASE encoding = "UTF_8" -> "UTF-8"
      [] encoding = "UTF_16LE" -> "UTF-16LE"
      [] encoding = "UTF_16BE" -> "UTF-16BE"
      [] encoding = "GBK" -> "GBK"
      [] encoding = "GB18030" -> "gb18030"
      [] encoding = "WINDOWS_1252" -> "windows-1252"
      [] OTHER -> "replacement"

\* lines 189-194
name(cs) == IF cs.variant = "Utf7" THEN "UTF-7" ELSE Encoding_name(cs.encoding)

\* a decode_with_bom_removal that removes a UTF-8 BOM for UTF-7 as well
decode_with_bom_removal_strips(cs, b) ==
    IF cs.variant = "Utf7"
    THEN [decoder |-> "decode_utf7", encoding |-> "-",
          arg |-> IF StartsWith(b, <<239, 187, 191>>) THEN SliceFrom(b, 3) ELSE b]
    ELSE [decoder |-> "Encoding::decode_with_bom_removal", encoding |-> cs.encoding, arg |-> b]

\* lines 257-263: the decoder the call goes to, and the buffer it is given
decode_with_bom_removal(cs, b) ==
    IF cs.variant = "Utf7"
    THEN [decoder |-> "decode_utf7", encoding |-> "-", arg |-> b]
    ELSE [decoder |-> "Encoding::decode_with_bom_removal", encoding |-> cs.encoding, arg |-> b]

\* lines 285-291
decode_without_bom_handling(cs, b) ==
    IF cs.variant = "Utf7"
    THEN [decoder |-> "decode_utf7", encoding |-> "-", arg |-> b]
    ELSE [decoder |-> "Encoding::decode_without_bom_handling", encoding |-> cs.encoding,
          arg |-> b]

\* a sniffing that overrides the charset and leaves the BOM in the buffer
decode_sniff_keeps_bom(cs, b) ==
    IF for_bom(b) # None
    THEN [charset |-> for_bom(b)[1][1], without_bom |-> b]
    ELSE [charset |-> cs, without_bom |-> b]

\* lines 229-232: the charset used and the buffer without its BOM
decode_sniff(cs, b) ==
    IF for_bom(b) # None
    THEN [charset |-> for_bom(b)[1][1], without_bom |-> SliceFrom(b, for_bom(b)[1][2])]
    ELSE [charset |-> cs, without_bom |-> b]

\* the call of a decoder: decode_utf7 starts on arg, or encoding_rs is called
Enter(route) ==
    IF route.decoder = "decode_utf7"
    THEN /\ pc' = "start"
         /\ bytes' = route.arg
         /\ UNCHANGED ext
    ELSE /\ pc' = "external"
         /\ ext' = Some(route)
         /\ UNCHANGED bytes

\* the constant UTF_7 (lines 65-67) or Charset::for_encoding(handle)
ObtainCharset ==
    /\ pc = "api"
    /\ self_cs = None
    /\ self_cs' = Some(IF handle = "UTF_7" THEN UTF_7 ELSE for_encoding(handle))
    /\ UNCHANGED <<decodeVars, labelVars, handle, input, entry, used_cs, ext>>

\* lines 227-235
CallDecode ==
    /\ pc = "api"
    /\ self_cs # None
    /\ entry' = "decode"
    /\ LET sniffed == decode_sniff(self_cs[1], input)
       IN /\ used_cs' = Some(sniffed.charset)
          /\ Enter(decode_without_bom_handling(sniffed.charset, sniffed.without_bom))
    /\ UNCHANGED <<tail, out, had_errors, borrowed, raw, allow_bits, b64_calls,
                   labelVars, handle, self_cs, input>>

\* lines 257-263
CallDecodeWithBomRemoval ==
    /\ pc = "api"
    /\ self_cs # None
    /\ entry' = "decode_with_bom_removal"
    /\ Enter(decode_with_bom_removal(self_cs[1], input))
    /\ UNCHANGED <<tail, out, had_errors, borrowed, raw, allow_bits, b64_calls,
                   labelVars, handle, self_cs, input, used_cs>>

\* lines 285-291
CallDecodeWithoutBomHandling ==
    /\ pc = "api"
    /\ self_cs # None
    /\ entry' = "decode_without_bom_handling"
    /\ Enter(decode_without_bom_handling(self_cs[1], input))
    /\ UNCHANGED <<tail, out, had_errors, borrowed, raw, allow_bits, b64_calls,
                   labelVars, handle, self_cs, input, used_cs>>

\* the bytes the buffers of the facade are drawn from: the bytes of the three
\* BOMs (EF BB BF, FF FE, FE FF) and 'A'
ApiBytes == {239, 187, 191, 255, 254, 65}

\* a BOM followed by text, a BOM followed by UTF-7, UTF-7 without a BOM, and
\* near misses of a BOM
ExampleApiInputs ==
    { <<239, 187, 191, 65, 66>>, <<255, 254, 65, 0>>, <<254, 255, 0, 65>>,
      <<239, 187, 191, 43, 45>>, <<255, 254, 43, 65, 79, 107>>,
      <<43, 65, 79, 107>>, <<65, 43, 50, 65, 65>>, <<65, 66, 67>>,
      <<239, 187, 65, 66>>, <<254, 254, 255, 65>>, <<65, 239, 187, 191>> }

ApiInputs == UNION {[1..n -> ApiBytes] : n \in 0..MaxApiLen} \cup ExampleApiInputs

ApiInit ==
    /\ handle \in Handles
    /\ input \in ApiInputs
    /\ allow_bits \in BOOLEAN
    /\ self_cs = None
    /\ entry = "none"
    /\ used_cs = None
    /\ ext = None
    /\ pc = "api"
    /\ bytes = <<>>
    /\ tail = <<>>
    /\ out = <<>>
    /\ had_errors = FALSE
    /\ borrowed = FALSE
    /\ raw = <<>>
    /\ b64_calls = <<>>
    /\ label = <<>>
    /\ lpc = {}
    /\ with_repl = None
    /\ no_repl = None

----------------------------------------------------------------------------
Init == DecodeInit \/ LabelInit \/ ApiInit

Next ==
    \/ decode_utf7
    \/ LoopPlus
    \/ LoopMalformed
    \/ CallForLabel
    \/ CallForLabelNoReplacement
    \/ ObtainCharset
    \/ CallDecode
    \/ CallDecodeWithBomRemoval
    \/ CallDecodeWithoutBomHandling

Spec == Init /\ [][Next]_vars

\* the UTF-7 decoder alone, run to its end: a call of decode_utf7 executes
\* its next step as long as it has one
DecodeNext ==
    \/ decode_utf7
    \/ LoopPlus
    \/ LoopMalformed

\* the bytes the buffers of the termination runs are drawn from: '+', '-', 'A', 0x80
TermBytes == {Plus, Minus, 65, HighBit}

TermInputs ==
    UNION {[1..n -> TermBytes] : n \in 0..MaxTermLen} \cup ExampleInputs \cup MultiChunkInputs

TermInit == DecodeInitOver(TermInputs)

TermSpec == TermInit /\ [][DecodeNext]_vars /\ WF_vars(DecodeNext)

----------------------------------------------------------------------------
(* Properties of the UTF-7 decoder *)

Returned == pc = "done"
Ended == pc \in {"done", "panic"}

IsAscii(byte) == byte < HighBit
HasNoPlus(s) == \A i \in 1..Len(s) : s[i] # Plus
HasHighByte(s) == \E i \in 1..Len(s) : ~IsAscii(s[i])
IsPlainAscii(s) == \A i \in 1..Len(s) : IsAscii(s[i]) /\ s[i] # Plus

\* s with every byte >= 0x80 replaced by U+FFFD
RECURSIVE ReplaceHigh(_)
ReplaceHigh(s) ==
    IF s = <<>> THEN <<>>
    ELSE (IF IsAscii(Head(s)) THEN <<Head(s)>> ELSE Replacement) \o ReplaceHigh(Tail(s))

IsCont(byte) == byte \in 128..191

\* s is well-formed UTF-8
RECURSIVE IsValidUtf8(_)
IsValidUtf8(s) ==
    IF s = <<>> THEN TRUE
    ELSE LET b == s[1] IN
        IF b < 128 THEN IsValidUtf8(SliceFrom(s, 1))
        ELSE IF b \in 194..223 THEN
            /\ Len(s) >= 2 /\ IsCont(s[2])
            /\ IsValidUtf8(SliceFrom(s, 2))
        ELSE IF b \in 224..239 THEN
            /\ Len(s) >= 3 /\ IsCont(s[2]) /\ IsCont(s[3])
            /\ (b = 224 => s[2] >= 160)
            /\ (b = 237 => s[2] <= 159)
            /\ IsValidUtf8(SliceFrom(s, 3))
        ELSE IF b \in 240..244 THEN
            /\ Len(s) >= 4 /\ IsCont(s[2]) /\ IsCont(s[3]) /\ IsCont(s[4])
            /\ (b = 240 => s[2] >= 144)
            /\ (b = 244 => s[2] <= 143)
            /\ IsValidUtf8(SliceFrom(s, 4))
        ELSE FALSE

\* C1: whatever the input, a UTF-7 decode never panics: the unwrap of the
\* Base64 result never fires and no slice index is out of bounds.
C1_NeverPanics == pc # "panic"

\* C2: an input of bytes < 0x80 without '+' is returned as it is, borrowed
\* (no owned buffer is built), with had_errors = false.
C2_FastPath ==
    (pc \in {"loop", "done", "panic"} /\ IsPlainAscii(bytes))
        => /\ Returned
           /\ borrowed
           /\ Text = bytes
           /\ out = <<>>
           /\ ~had_errors

C2_Witness ==
    Returned /\ borrowed /\ Len(bytes) >= 2 /\ IsPlainAscii(bytes) /\ ~had_errors

\* C3: without '+' in the input, the output is the input with each byte
\* >= 0x80 replaced by one U+FFFD and every other byte copied in place; each
\* high byte consumes one input byte, and had_errors is true exactly when a
\* high byte is present.
C3_StrayHighBytes ==
    HasNoPlus(bytes)
        => /\ pc # "panic"
           /\ pc = "loop" =>
                /\ ~IsAscii(tail[1])
                /\ out \o ReplaceHigh(tail) = ReplaceHigh(bytes)
                /\ \E n \in 0..Len(bytes) : tail = SliceFrom(bytes, n)
           /\ Returned =>
                /\ Text = ReplaceHigh(bytes)
                /\ had_errors <=> HasHighByte(bytes)

C3_Witness ==
    /\ Returned
    /\ bytes = <<65, 128, 66>>
    /\ Text = <<65>> \o Replacement \o <<66>>
    /\ had_errors

\* C4: wherever '+' is immediately followed by '-' outside a shifted run, the
\* decoder appends one '+', consumes both bytes, raises no error and goes on
\* scanning ASCII after the '-'; so "+-" decodes to "+" with had_errors = false.
C4_PlusMinus ==
    [][(pc = "loop" /\ Len(tail) >= 2 /\ tail[1] = Plus /\ tail[2] = Minus)
        => LET rest == SliceFrom(tail, 2)
           IN /\ pc' \in {"loop", "done"}
              /\ had_errors' = had_errors
              /\ \E n \in 0..Len(rest) :
                    /\ IsPlainAscii(SliceTo(rest, n))
                    /\ n < Len(rest) => ~IsPlainAscii(SliceTo(rest, n + 1))
                    /\ out' = out \o <<Plus>> \o SliceTo(rest, n)
                    /\ pc' = IF n = Len(rest) THEN "done" ELSE "loop"
                    /\ pc' = "loop" => tail' = SliceFrom(rest, n)]_vars

\* C5: "+AOk-" decodes to the single character U+00E9, had_errors = false.
C5_ShiftedRun ==
    (bytes = <<43, 65, 79, 107, 45>> /\ Ended)
        => /\ Returned
           /\ Text = Utf8Encode(233)
           /\ ~had_errors

\* C6: when '+' is followed by a byte that is neither Base64 nor '-', the
\* decoder appends one U+FFFD for the '+', sets had_errors, and leaves the
\* following byte to the next ASCII scan: copied if it is ASCII, stopping the
\* scan (to be replaced by its own U+FFFD) if it is >= 0x80.
C6_MalformedShift ==
    [][(pc = "loop" /\ Len(tail) >= 2 /\ tail[1] = Plus
            /\ ~IsBase64(tail[2]) /\ tail[2] # Minus)
        => /\ pc' \in {"loop", "done"}
           /\ had_errors'
           /\ Len(out') >= Len(out) + 3
           /\ SliceTo(out', Len(out) + 3) = out \o Replacement
           /\ IF IsAscii(tail[2])
              THEN /\ Len(out') >= Len(out) + 4
                   /\ out'[Len(out) + 4] = tail[2]
              ELSE /\ out' = out \o Replacement
                   /\ pc' = "loop"
                   /\ tail' = SliceFrom(tail, 1)]_vars

\* C7: when '+' is the last byte of the input, the decoder appends one U+FFFD
\* for it and returns had_errors = true.
C7_PlusAtEnd ==
    (/\ Ended
     /\ Len(bytes) > 0
     /\ bytes[Len(bytes)] = Plus
     /\ HasNoPlus(SliceTo(bytes, Len(bytes) - 1)))
        => /\ Returned
           /\ had_errors
           /\ Text = ReplaceHigh(SliceTo(bytes, Len(bytes) - 1)) \o Replacement

\* C8: every input byte taken as text without validation is < 0x80 and is
\* not '+'; no byte >= 0x80 is passed through raw, so the owned buffer and the
\* returned text are valid UTF-8, also when had_errors is true.
C8_OutputValid ==
    /\ \A i \in 1..Len(raw) : IsAscii(raw[i]) /\ raw[i] # Plus
    /\ IsValidUtf8(out)
    /\ Returned => IsValidUtf8(Text)

C8_Witness ==
    /\ Returned
    /\ had_errors
    /\ HasHighByte(bytes)
    /\ Len(raw) > 0
    /\ ~borrowed

----------------------------------------------------------------------------
(* Properties of the label resolution *)

\* l is W* u t f '-' '7' W*: whitespace, the token with u, t, f in either
\* case and '-', '7' exact, whitespace
IsUtf7Form(l) ==
    \E i \in 0..Len(l) :
        /\ i + 5 <= Len(l)
        /\ \A k \in 1..i : IsLabelSpace(l[k])
        /\ l[i + 1] \in {117, 85}
        /\ l[i + 2] \in {116, 84}
        /\ l[i + 3] \in {102, 70}
        /\ l[i + 4] = 45
        /\ l[i + 5] = 55
        /\ \A k \in (i + 6)..Len(l) : IsLabelSpace(l[k])

\* the labels the table of encoding_rs knows
IsKnownLabel(l) == Encoding_for_label(l) # None

\* C9: for_label and for_label_no_replacement return Some(UTF_7) exactly for
\* the labels W* u t f '-' '7' W*; every other label the external table does
\* not know yields None.
C9_Utf7Label ==
    /\ "for_label" \in lpc =>
        /\ with_repl = Some(UTF_7) <=> IsUtf7Form(label)
        /\ (~IsUtf7Form(label) /\ ~IsKnownLabel(label)) => with_repl = None
    /\ "for_label_no_replacement" \in lpc =>
        /\ no_repl = Some(UTF_7) <=> IsUtf7Form(label)
        /\ (~IsUtf7Form(label) /\ ~IsKnownLabel(label)) => no_repl = None

C9_Witness ==
    /\ lpc = {"for_label", "for_label_no_replacement"}
    /\ label = <<32, 32, 117, 84, 102, 45, 55, 9, 32>>
    /\ with_repl = Some(UTF_7)
    /\ no_repl = Some(UTF_7)

\* C10: for_label_no_replacement returns what for_label returns, except None
\* where for_label returns the Charset of the replacement encoding.
C10_NoReplacement ==
    lpc = {"for_label", "for_label_no_replacement"}
        => no_repl = IF with_repl = Some(for_encoding("REPLACEMENT"))
                     THEN None
                     ELSE with_repl

C10_Witness ==
    /\ lpc = {"for_label", "for_label_no_replacement"}
    /\ with_repl = Some(for_encoding("REPLACEMENT"))
    /\ no_repl = None

----------------------------------------------------------------------------
(* Properties of the Charset facade *)

InDecodeUtf7 == pc \in {"start", "loop", "done", "panic"}

EncodingCharset(encoding) == [variant |-> "Encoding", encoding |-> encoding]

\* the buffer b was handed to the decoder of charset cs, without BOM handling
DecodedWith(cs, b) ==
    IF cs = UTF_7
    THEN /\ InDecodeUtf7
         /\ bytes = b
         /\ ext = None
    ELSE /\ pc = "external"
         /\ ext = Some([decoder |-> "Encoding::decode_without_bom_handling",
                        encoding |-> cs.encoding, arg |-> b])

\* C11: decode on any charset, UTF_7 included: an input that starts with
\* EF BB BF, FF FE or FE FF is decoded as UTF-8, UTF-16LE or UTF-16BE, from
\* the byte after the BOM on, and that charset is returned; without a BOM
\* the whole input is decoded with the charset decode was called on.
C11_BomOverride ==
    entry = "decode" =>
        IF StartsWith(input, <<239, 187, 191>>) THEN
            /\ used_cs = Some(EncodingCharset("UTF_8"))
            /\ DecodedWith(EncodingCharset("UTF_8"), SliceFrom(input, 3))
        ELSE IF StartsWith(input, <<255, 254>>) THEN
            /\ used_cs = Some(EncodingCharset("UTF_16LE"))
            /\ DecodedWith(EncodingCharset("UTF_16LE"), SliceFrom(input, 2))
        ELSE IF StartsWith(input, <<254, 255>>) THEN
            /\ used_cs = Some(EncodingCharset("UTF_16BE"))
            /\ DecodedWith(EncodingCharset("UTF_16BE"), SliceFrom(input, 2))
        ELSE
            /\ used_cs = self_cs
            /\ DecodedWith(self_cs[1], input)

C11_Witness ==
    /\ entry = "decode"
    /\ self_cs = Some(UTF_7)
    /\ input = <<255, 254, 43, 65, 79, 107>>
    /\ used_cs = Some(EncodingCharset("UTF_16LE"))
    /\ ext # None
    /\ ext[1].arg = <<43, 65, 79, 107>>

\* C12: on UTF_7, decode_with_bom_removal and decode_without_bom_handling
\* both run the UTF-7 decoder on the whole, unmodified input: no leading
\* bytes are removed as a BOM (the bytes of a BOM are decoded as UTF-7, each
\* to U+FFFD).
C12_Utf7Routing ==
    (entry \in {"decode_with_bom_removal", "decode_without_bom_handling"}
        /\ self_cs = Some(UTF_7))
        => /\ InDecodeUtf7
           /\ bytes = input
           /\ ext = None
           /\ (Returned /\ HasNoPlus(input)) =>
                /\ Text = ReplaceHigh(input)
                /\ had_errors <=> HasHighByte(input)

C12_Witness ==
    /\ entry = "decode_with_bom_removal"
    /\ self_cs = Some(UTF_7)
    /\ input = <<239, 187, 191, 65, 66>>
    /\ Returned
    /\ Text = Replacement \o Replacement \o Replacement \o <<65, 66>>
    /\ had_errors

----------------------------------------------------------------------------
(* Properties of the loops of the UTF-7 decoder *)

\* C13: the decoder terminates on every input (by returning, or by the panic
\* of C1): each iteration of the main loop consumes at least one byte of the
\* tail, and each iteration of the chunk loop either ends the call or goes on
\* with a run 80 bytes shorter.
C13_Terminates ==
    /\ <>Ended
    /\ [][(pc = "loop" /\ pc' # "panic") => Len(tail') < Len(tail)]_vars
    /\ [](\A c \in 1..Len(b64_calls) :
            LET chunks == b64_calls[c].chunks
            IN \A k \in 1..Len(chunks) :
                IF chunks[k].ended = "next"
                THEN /\ k < Len(chunks)
                     /\ chunks[k + 1].given = chunks[k].given - ChunkLen
                ELSE k = Len(chunks))

C13_Witness ==
    /\ Returned
    /\ bytes = <<128, 43, 65, 65>>
    /\ Len(b64_calls) = 1
    /\ tail = <<65, 65>>

----------------------------------------------------------------------------
(* Properties of Charset::for_encoding *)

\* the Charset values the calls have produced so far
Produced == {c[1] : c \in {self_cs, with_repl, no_repl, used_cs} \ {None}}

GB18030 == [variant |-> "Encoding", encoding |-> "GB18030"]

\* C14: for_encoding gives GBK and gb18030 the same Charset, whose name is
\* "gb18030"; no Charset produced by for_encoding, for_label or
\* for_label_no_replacement wraps GBK, and every other handle is wrapped as it
\* is.
C14_GbkUnified ==
    /\ for_encoding("GBK") = for_encoding("GB18030")
    /\ \A cs \in Produced : cs.encoding # "GBK"
    /\ (self_cs # None /\ handle \in {"GBK", "GB18030"}) =>
          /\ self_cs[1] = GB18030
          /\ name(self_cs[1]) = "gb18030"
    /\ (self_cs # None /\ handle \in Encodings \ {"GBK"}) =>
          self_cs[1] = [variant |-> "Encoding", encoding |-> handle]
    /\ \A r \in {with_repl, no_repl} \ {None} :
          Encoding_for_label(label) = Some("GBK") => r[1] = GB18030 /\ name(r[1]) = "gb18030"

C14_Witness ==
    /\ handle = "GBK"
    /\ self_cs = Some(GB18030)
    /\ pc = "api"

----------------------------------------------------------------------------
(* Properties of the shifted runs *)

\* the iteration about to run starts a shift: the bytes after the '+'
AtPlus == pc = "loop" /\ Len(tail) > 0 /\ tail[1] = Plus
AfterPlus == SliceFrom(tail, 1)

\* the maximal run of Base64 bytes after the '+', and the bytes that follow it
ShiftedRun == SliceTo(AfterPlus, utf7_base64_up_to(AfterPlus))
AfterRun == SliceFrom(AfterPlus, utf7_base64_up_to(AfterPlus))

\* C15: after a shifted run of length > 0 that is followed by more input, the
\* iteration goes on right behind the run: the byte that ended the run, a '-'
\* included, is scanned by the next ASCII scan, which copies it to the output
\* when it is ASCII.
C15_RunTerminatorKept ==
    [][(AtPlus /\ Len(ShiftedRun) > 0 /\ Len(AfterRun) > 0) =>
          /\ pc' # "panic"
          /\ raw' = raw \o SliceTo(AfterRun, utf7_ascii_up_to(AfterRun))
          /\ (pc' = "loop" => tail' = SliceFrom(AfterRun, utf7_ascii_up_to(AfterRun)))
          /\ (AfterRun[1] < HighBit /\ AfterRun[1] # Plus =>
                 Len(raw') > Len(raw) /\ raw'[Len(raw) + 1] = AfterRun[1])]_vars

\* C16: every call of utf7_base64_decode is given a non-empty sequence of
\* Base64-alphabet bytes only: the maximal run after the '+', without the
\* bytes that follow it.
C16_CallPrecondition ==
    \A c \in 1..Len(b64_calls) :
        /\ Len(b64_calls[c].arg) > 0
        /\ \A i \in 1..Len(b64_calls[c].arg) : IsBase64(b64_calls[c].arg[i])

\* C17: every Base64 decoding step of utf7_base64_decode is given at most 80
\* characters and so never overflows the 60-byte buffer; every step but the
\* last is given exactly 80, and only the last is marked as the end of the
\* stream.
C17_BoundedChunks ==
    \A c \in 1..Len(b64_calls) :
        LET chunks == b64_calls[c].chunks
        IN \A k \in 1..Len(chunks) :
            /\ chunks[k].given <= ChunkLen
            /\ chunks[k].ended # "buffer"
            /\ k < Len(chunks) => chunks[k].given = ChunkLen
            /\ chunks[k].last <=> k = Len(chunks)

\* C18: at the start of every iteration of the main loop the tail is not
\* empty and starts with '+' or with a byte >= 0x80.
C18_LoopInvariant ==
    pc = "loop" => /\ Len(tail) > 0
                   /\ tail[1] = Plus \/ tail[1] >= HighBit

\* a second iteration, entered from the scan at the end of the first
C18_Witness ==
    /\ pc = "loop"
    /\ bytes = <<128, 65, 128>>
    /\ tail = <<128>>
    /\ raw = <<65>>

\* the text and the flag utf7_base64_decode gives for the run alone
RunDecoded == utf7_base64_decode(ShiftedRun, allow_bits)

\* C19: when the bytes of a shifted run hold invalid UTF-16 (an unpaired
\* surrogate, a truncated code unit), the run's text with U+FFFD in its place
\* is appended, had_errors becomes true and stays true, and the input after
\* the run is decoded: the iteration does not panic and goes on behind the run.
C19_InvalidUtf16 ==
    [][(AtPlus /\ Len(ShiftedRun) > 0 /\ ~RunDecoded.panic /\ RunDecoded.err) =>
          /\ pc' # "panic"
          /\ had_errors'
          /\ Len(out') >= Len(out) + Len(RunDecoded.text)
          /\ SliceTo(out', Len(out) + Len(RunDecoded.text)) = out \o RunDecoded.text
          /\ (pc' = "loop" => tail' = SliceFrom(AfterRun, utf7_ascii_up_to(AfterRun)))]_vars

\* s holds sub as a contiguous part
Contains(s, sub) ==
    \E i \in 0..(Len(s) - Len(sub)) : \A j \in 1..Len(sub) : s[i + j] = sub[j]

\* C20: had_errors, once true, stays true until the result is returned; a
\* returned had_errors = true comes with a U+FFFD in the returned text; the
\* borrowed input is returned with had_errors = false.
C20_FlagMonotone ==
    /\ [][had_errors => had_errors']_vars
    /\ [](Returned /\ had_errors => Contains(Text, Replacement))
    /\ [](Returned /\ borrowed => ~had_errors)

\* a high byte sets the flag, and a well-formed shifted run after it keeps it
C20_Witness ==
    /\ Returned
    /\ bytes = <<128, 43, 65, 65, 65>>
    /\ had_errors
    /\ Len(b64_calls) = 1
    /\ Contains(Text, Replacement)

====
